---- MODULE Spec2Model ----
(***************************************************************************)
(* Model of the structural-estimation notebook                             *)
(* Structural-Estimates-From-Empirical-MPCs-Fagereng-et-al.ipynb:          *)
(* the configuration cells, the population EstTypeList and the objective   *)
(* function FagerengObjFunc.                                               *)
(*                                                                         *)
(* Real numbers are exact rationals <<n, d>> with d > 0 in lowest terms;   *)
(* <<0, 0>> is NaN (the value numpy gives to the mean of an empty array).  *)
(***************************************************************************)
EXTENDS Integers, Sequences, FiniteSets, TLC

\* ------------------------------------------------------------------ bounds
\* Largest number of consumer types (TypeCount) a run is configured with.
MaxTypeCount == 2
\* Largest number of simulated agents per type (AgentCount).
MaxAgentCount == 2
\* Largest number of objective-function calls the optimizer issues in a run.
MaxCalls == 2

\* --------------------------------------------------------- exact rationals
RECURSIVE GCD(_, _)
GCD(a, b) == IF b = 0 THEN a ELSE GCD(b, a % b)

Abs(a) == IF a < 0 THEN -a ELSE a

LCM(a, b) == (a \div GCD(a, b)) * b

NaN == <<0, 0>>

IsNaN(r) == r[2] = 0

\* n/d in lowest terms with a positive denominator; a zero denominator is NaN.
Rat(n, d) ==
    IF d = 0 THEN NaN
    ELSE LET g == GCD(Abs(n), Abs(d))
             s == IF d < 0 THEN -1 ELSE 1
         IN  <<s * (n \div g), s * (d \div g)>>

RInt(n) == <<n, 1>>

RAdd(a, b) ==
    IF IsNaN(a) \/ IsNaN(b) THEN NaN
    ELSE LET l == LCM(a[2], b[2])
         IN  Rat(a[1] * (l \div a[2]) + b[1] * (l \div b[2]), l)

RNeg(a) == IF IsNaN(a) THEN NaN ELSE <<-a[1], a[2]>>

RSub(a, b) == RAdd(a, RNeg(b))

RMul(a, b) ==
    IF IsNaN(a) \/ IsNaN(b) THEN NaN
    ELSE LET g1 == GCD(Abs(a[1]), b[2])
             g2 == GCD(Abs(b[1]), a[2])
         IN  IF a[1] = 0 \/ b[1] = 0 THEN RInt(0)
             ELSE Rat((a[1] \div g1) * (b[1] \div g2), (a[2] \div g2) * (b[2] \div g1))

\* Floating-point division: x/0 is NaN for x = 0; the model never divides a
\* nonzero number by zero (prizes and permanent income are positive).
RDiv(a, b) ==
    IF IsNaN(a) \/ IsNaN(b) \/ b[1] = 0 THEN NaN
    ELSE RMul(a, Rat(b[2], b[1]))

\* Comparisons with NaN are false, as in IEEE arithmetic.
RLess(a, b) == ~IsNaN(a) /\ ~IsNaN(b) /\ a[1] * b[2] < b[1] * a[2]

RGreater(a, b) == RLess(b, a)

RLeq(a, b) == ~IsNaN(a) /\ ~IsNaN(b) /\ a[1] * b[2] <= b[1] * a[2]

\* IEEE equality: NaN equals nothing, not even itself.
REq(a, b) == ~IsNaN(a) /\ ~IsNaN(b) /\ a = b

RECURSIVE RSum(_)
RSum(s) == IF s = <<>> THEN RInt(0) ELSE RAdd(Head(s), RSum(Tail(s)))

\* ------------------------------------------------- collaborators (HARK, numpy)
\* HARK.utilities.approxUniform(N, bot, top): equiprobable discretization of
\* Uniform[bot, top]; returns [pmf, X] with
\*   X = center + width*linspace(-(N-1)/2, (N-1)/2, N)/(N/2).
approxUniform(N, bot, top) ==
    LET ctr   == RDiv(RAdd(top, bot), RInt(2))
        width == RDiv(RSub(top, bot), RInt(2))
    IN  << [i \in 1..N |-> Rat(1, N)],
           [i \in 1..N |-> RAdd(ctr, RMul(width, Rat(2 * (i - 1) - (N - 1), N)))] >>

\* Ascending sort of a sequence of rationals (np.argsort then indexing).
RECURSIVE Insert(_, _)
Insert(x, s) ==
    IF s = <<>> THEN <<x>>
    ELSE IF RLeq(x, Head(s)) THEN <<x>> \o s
    ELSE <<Head(s)>> \o Insert(x, Tail(s))

RECURSIVE Sorted(_)
Sorted(s) == IF s = <<>> THEN <<>> ELSE Insert(Head(s), Sorted(Tail(s)))

\* HARK.utilities.getPercentiles(data, percentiles) with equal weights: the
\* inverse of the empirical CDF, cum_dist[i] = i/n at data_sorted[i], linearly
\* interpolated (scipy interp1d, bounds_error=False: NaN below cum_dist[1]).
PercentileOf(data, p) ==
    LET n    == Len(data)
        srt  == Sorted(data)
        x    == RMul(p, RInt(n))
        i    == x[1] \div x[2]
        frac == RSub(x, RInt(i))
    IN  IF i < 1 \/ i > n THEN NaN
        ELSE IF frac = RInt(0) THEN srt[i]
        ELSE RAdd(srt[i], RMul(frac, RSub(srt[i + 1], srt[i])))

getPercentiles(data, percentiles) ==
    [n \in 1..Len(percentiles) |-> PercentileOf(data, percentiles[n])]

\* A consumption function: a linear interpolation through the knots
\* (x[i], y[i]), extrapolated linearly beyond the last knot.
Segment(f, m) ==
    LET S == {i \in 1..(Len(f.x) - 1) : RLeq(RInt(f.x[i]), m)}
    IN  IF S = {} THEN 1 ELSE CHOOSE i \in S : \A k \in S : k <= i

cFuncDerivative(f, m) ==
    LET i == Segment(f, m)
    IN  RDiv(RSub(f.y[i + 1], f.y[i]), RInt(f.x[i + 1] - f.x[i]))

cFuncAt(f, m) ==
    LET i == Segment(f, m)
    IN  RAdd(f.y[i], RMul(cFuncDerivative(f, m), RSub(m, RInt(f.x[i]))))

\* The two-point consumption function cFunc(m) = 0.5*m.
HalfCFunc == [x |-> <<0, 1>>, y |-> <<RInt(0), Rat(1, 2)>>]

\* A borrowing-constrained consumer: c = m up to m = 2, slope 1/2 beyond.
KinkCFunc == [x |-> <<0, 2, 6>>, y |-> <<RInt(0), RInt(2), RInt(4)>>]

\* np.mean of a (concatenated) array: sum/len, NaN (0/0) for an empty array.
Mean(s) == RDiv(RSum(s), RInt(Len(s)))

\* A big natural number hi*Base + lo, 0 <= lo < Base (sums of squares).
Base == 100 * 100

BigNorm(b) == <<b[1] + b[2] \div Base, b[2] % Base>>

BigAdd(a, b) == BigNorm(<<a[1] + b[1], a[2] + b[2]>>)

BigOfSquare(x) == <<(x * x) \div Base, (x * x) % Base>>

BigTimes(b, f) == BigNorm(<<b[1] * f + (b[2] * f) \div Base, (b[2] * f) % Base>>)

BigLess(a, b) == a[1] < b[1] \/ (a[1] = b[1] /\ a[2] < b[2])

RECURSIVE BigSum(_)
BigSum(s) == IF s = <<>> THEN <<0, 0>> ELSE BigAdd(Head(s), BigSum(Tail(s)))

\* ----------------------------------------------------------- configuration
Rows == 0..3
Cols == 0..3

\* The 16 (row, column) index pairs in row-major order.
Cells == [n \in 1..16 |-> <<(n - 1) \div 4, (n - 1) % 4>>]

\* Table 9 of Fagereng et al, in thousandths (MPC_target_base).
MPC_target_base ==
    [k \in Rows |->
        [q \in Cols |->
            (<< <<1047, 745, 720, 490>>,
                <<762, 640, 559, 437>>,
                <<663, 546, 390, 386>>,
                <<354, 325, 242, 216>> >>)[k + 1][q + 1]]]

\* MPC_target = AdjFactor*MPC_target_base
TargetMatrix(adj) ==
    [k \in Rows |-> [q \in Cols |-> RMul(adj, Rat(MPC_target_base[k][q], 1000))]]

\* percentiles=[0.25,0.50,0.75]
QuartilePercentiles == <<Rat(1, 4), Rat(1, 2), Rat(3, 4)>>

Callers == 1..2

VARIABLES
    TypeCount,      \* number of consumer types
    AgentCount,     \* base_params['AgentCount']
    AdjFactor,      \* scaling factor of the targets
    Splurge,        \* amount of a prize spent at once
    do_secant,      \* secant MPC (TRUE) or point MPC (FALSE)
    drop_corner,    \* ignore the upper left corner in the distance
    lottery_size,   \* the four lottery sizes
    MPC_target,     \* the (adjusted) target matrix
    EstTypeList,    \* the shared population: one record per consumer type
    call,           \* per caller: position in FagerengObjFunc and its locals
    parallelTrials, \* whether the optimizer evaluates trial points concurrently
    ncalls          \* objective-function calls issued so far

vars == <<TypeCount, AgentCount, AdjFactor, Splurge, do_secant, drop_corner,
          lottery_size, MPC_target, EstTypeList, call, parallelTrials, ncalls>>

config == <<TypeCount, AgentCount, AdjFactor, Splurge, do_secant, drop_corner,
            lottery_size, parallelTrials>>

Types == 1..TypeCount
Agents == 1..AgentCount

EmptySets == [k \in Rows |-> [q \in Cols |-> <<>>]]

NoMatrix == [k \in Rows |-> [q \in Cols |-> NaN]]

NoDistance == [nan |-> TRUE, sumsq |-> <<0, 0>>, unit |-> 1]

\* A caller outside FagerengObjFunc: no frame, no locals.
IdleCall ==
    [pc |-> "idle", center |-> NaN, spread |-> NaN, beta_set |-> <<>>,
     WealthNow |-> <<>>, quartile_cuts |-> <<>>, j |-> 0,
     MPC_this_type |-> <<>>, MPC_set_list |-> EmptySets,
     simulated_MPC_means |-> NoMatrix, diff |-> NoMatrix,
     distance |-> NoDistance, foreign |-> FALSE,
     cmd |-> <<>>, dispatched |-> <<>>, interleaved |-> FALSE]

\* BaseType = IndShockConsumerType(**base_params); deepcopy; seed = j.
\* Nothing is solved or simulated yet; the discount factor of base_params is
\* overwritten before it is ever read (NaN stands for it).  solution is what
\* solve() leaves behind and cFunc what unpackcFunc() exposes of it; RNG is
\* the number of draws taken from the type's own random number generator
\* since it was seeded with seed.  by* name the call that last wrote the
\* discount factor, the solution, the simulation arrays and the labels
\* (0: none).
NewType(j) ==
    [seed |-> j - 1, DiscFac |-> NaN, cFunc |-> [x |-> <<>>, y |-> <<>>],
     solution |-> [x |-> <<>>, y |-> <<>>], RNG |-> 0,
     aLvlNow |-> <<>>, mNrmNow |-> <<>>, pLvlNow |-> <<>>, cNrmNow |-> <<>>,
     WealthQ |-> <<>>, byDiscFac |-> 0, bySolve |-> 0, bySim |-> 0,
     byWealthQ |-> 0]

InitWith(TC, AC, Adj, Spl, Sec, Drop, Lot, Par) ==
    /\ TypeCount \in TC
    /\ AgentCount \in AC
    /\ AdjFactor \in Adj
    /\ Splurge \in Spl
    /\ do_secant \in Sec
    /\ drop_corner \in Drop
    /\ lottery_size \in Lot
    /\ parallelTrials \in Par
    /\ MPC_target = TargetMatrix(AdjFactor)
    /\ EstTypeList = [j \in 1..TypeCount |-> NewType(j)]
    /\ call = [c \in Callers |-> IdleCall]
    /\ ncalls = 0

\* --------------------------------------------- FagerengObjFunc, step by step
InCall(c) == call[c].pc \notin {"idle", "returned"}

\* Data of the shared population that was last written by another call.
Foreign(c, tag) == tag \notin {0, c}

\* The discount factors handed out in reverse order.
BetaForReversed(beta_set, j) == beta_set[Len(beta_set) + 1 - j]

\* beta_set[j], the discount factor handed to type j (0-based in the source).
BetaFor(beta_set, j) == beta_set[j]

\* EstTypeList[j](DiscFac = beta)
WithDiscFac(ThisType, beta, c) ==
    [ThisType EXCEPT !.DiscFac = beta, !.byDiscFac = c]

\* FagerengObjFunc(center, spread) is entered.  The optimizer of the notebook
\* issues one call at a time; a parallel optimizer may have several in flight.
Start(c, ctr, spr) ==
    /\ ~InCall(c)
    /\ parallelTrials \/ \A o \in Callers : ~InCall(o)
    /\ call' = [call EXCEPT ![c] =
                   [IdleCall EXCEPT !.pc = "assign", !.center = ctr, !.spread = spr]]
    /\ ncalls' = ncalls + 1
    /\ UNCHANGED <<config, MPC_target, EstTypeList>>

\* Give our consumer types the requested discount factor distribution.
AssignDiscFac(c) ==
    /\ call[c].pc = "assign"
    /\ LET beta_set == approxUniform(TypeCount,
                                     RSub(call[c].center, call[c].spread),
                                     RAdd(call[c].center, call[c].spread))[2]
       IN  /\ EstTypeList' =
                 [j \in Types |-> WithDiscFac(EstTypeList[j], BetaFor(beta_set, j), c)]
           /\ call' = [call EXCEPT ![c].pc = "solve", ![c].beta_set = beta_set]
    /\ UNCHANGED <<config, MPC_target, ncalls>>

\* A solver step that keeps a solution it already has.
SolvedOnce(ThisType, f, c) ==
    IF ThisType.bySolve # 0 THEN ThisType
    ELSE [ThisType EXCEPT !.solution = f, !.cFunc = f, !.bySolve = c]

\* solve(); unpackcFunc(): the solver's consumption function for this type.
Solved(ThisType, f, c) ==
    [ThisType EXCEPT !.solution = f, !.cFunc = f, !.bySolve = c]

\* A simulation set-up that keeps the generator where the last run left it.
InitializedSimKeepRNG(ThisType) ==
    [ThisType EXCEPT !.aLvlNow = <<>>, !.mNrmNow = <<>>,
                     !.pLvlNow = <<>>, !.cNrmNow = <<>>]

\* initializeSim(): the generator is reseeded and the simulation arrays are
\* blanked before the agents are born.
InitializedSim(ThisType) ==
    [ThisType EXCEPT !.RNG = 0, !.aLvlNow = <<>>, !.mNrmNow = <<>>,
                     !.pLvlNow = <<>>, !.cNrmNow = <<>>]


\* simulate(): every agent gets market resources m and permanent income p
\* (draw[i] = <<m, p>>, one draw of the type's generator), consumes
\* solution.cFunc(m) and ends the period with assets aNrm = m - c,
\* aLvl = aNrm*p.
Simulated(ThisType, draw, c) ==
    LET m  == [i \in 1..Len(draw) |-> RInt(draw[i][1])]
        pl == [i \in 1..Len(draw) |-> RInt(draw[i][2])]
        cn == [i \in 1..Len(draw) |-> cFuncAt(ThisType.solution, m[i])]
    IN  [ThisType EXCEPT
            !.mNrmNow = m, !.pLvlNow = pl, !.cNrmNow = cn,
            !.aLvlNow = [i \in 1..Len(draw) |-> RMul(RSub(m[i], cn[i]), pl[i])],
            !.RNG = @ + 1, !.bySim = c]

\* multiThreadCommands(EstTypeList, ['solve()','initializeSim()','simulate()',
\* 'unpackcFunc()']): every type is solved for its discount factor and
\* simulated.  CF: the consumption functions the solver may return;
\* Worlds: the simulation outcomes, per type and agent.
SolveSimulate(c, CF, Worlds) ==
    /\ call[c].pc = "solve"
    /\ \E cf \in [Types -> CF], w \in Worlds :
          EstTypeList' =
              [j \in Types |->
                  Simulated(InitializedSim(Solved(EstTypeList[j], cf[j], c)), w[j], c)]
    /\ call' = [call EXCEPT
                  ![c].pc = "gather",
                  ![c].foreign = @ \/ \E j \in Types : Foreign(c, EstTypeList[j].byDiscFac)]
    /\ UNCHANGED <<config, MPC_target, ncalls>>

\* ------------------------------------ the batch, one command after another
\* A command list without initializeSim().
CommandsNoInit == <<"solve()", "simulate()", "unpackcFunc()">>

\* The command list handed to multiThreadCommands.
Commands == <<"solve()", "initializeSim()", "simulate()", "unpackcFunc()">>

\* The solver as a function of the type's parameters, of which only the
\* discount factor differs between types and calls: an impatient consumer
\* ends up borrowing constrained.
SolverOf(DiscFac) ==
    IF RLess(DiscFac, Rat(92, 100)) THEN KinkCFunc ELSE HalfCFunc

\* The n-th draw of a generator seeded with seed, for agent i: <<m, p>>.
ShockOf(seed, n, i) == <<1 + ((2 * seed + i + n) % 4), 1 + (i % 2)>>

RECURSIVE DrawsTaken(_, _)
DrawsTaken(types, n) ==
    IF n = 0 THEN 0 ELSE DrawsTaken(types, n - 1) + types[n].RNG

\* One generator shared by all types: the next draw is the one after all the
\* draws any type has taken.
DrawPositionShared(types, j) == DrawsTaken(types, Len(types))

\* Every type is a deepcopy of BaseType with a seed of its own: the next draw
\* of type j is the one after the draws type j has taken.
DrawPosition(types, j) == types[j].RNG

\* The outcomes of the next simulated period of type j.
Shocks(types, j) ==
    [i \in Agents |-> ShockOf(types[j].seed, DrawPosition(types, j), i)]

\* One command run on type j of the list, by call c.
RunOne(types, j, command, c) ==
    LET ThisType == types[j]
    IN  CASE command = "solve()" ->
                 [ThisType EXCEPT !.solution = SolverOf(ThisType.DiscFac),
                                  !.bySolve = c]
          [] command = "initializeSim()" -> InitializedSim(ThisType)
          [] command = "simulate()" -> Simulated(ThisType, Shocks(types, j), c)
          [] command = "unpackcFunc()" ->
                 [ThisType EXCEPT !.cFunc = ThisType.solution]

\* multiThreadCommands hands every type of the list, with the command list,
\* to a worker.
Dispatch(c) ==
    /\ call[c].pc = "solve"
    /\ call[c].cmd = <<>>
    /\ call' = [call EXCEPT
                  ![c].cmd = [j \in Types |-> 0],
                  ![c].dispatched = EstTypeList,
                  ![c].foreign = @ \/ \E j \in Types : Foreign(c, EstTypeList[j].byDiscFac)]
    /\ UNCHANGED <<config, MPC_target, EstTypeList, ncalls>>

\* Type j runs a command out of list order: while the worker of another type
\* is in the middle of its commands, or after a later type has started.
OutOfListOrder(cmd, j) ==
    \/ \E o \in DOMAIN cmd : o # j /\ cmd[o] > 0 /\ cmd[o] < Len(Commands)
    \/ \E o \in DOMAIN cmd : o > j /\ cmd[o] > 0

\* The worker of type j runs its next command.
RunCommand(c, j) ==
    /\ call[c].pc = "solve"
    /\ call[c].cmd # <<>>
    /\ call[c].cmd[j] < Len(Commands)
    /\ EstTypeList' =
          [EstTypeList EXCEPT
              ![j] = RunOne(EstTypeList, j, Commands[call[c].cmd[j] + 1], c)]
    /\ call' = [call EXCEPT
                  ![c].cmd[j] = @ + 1,
                  ![c].interleaved = @ \/ OutOfListOrder(call[c].cmd, j)]
    /\ UNCHANGED <<config, MPC_target, ncalls>>

\* multiThreadCommands returns when every worker has run all its commands.
Join(c) ==
    /\ call[c].pc = "solve"
    /\ call[c].cmd # <<>>
    /\ \A j \in Types : call[c].cmd[j] = Len(Commands)
    /\ call' = [call EXCEPT ![c].pc = "gather"]
    /\ UNCHANGED <<config, MPC_target, EstTypeList, ncalls>>

\* np.concatenate([ThisType.aLvlNow for ThisType in EstTypeList])
RECURSIVE Concatenate(_, _)
Concatenate(arrays, n) ==
    IF n = 0 THEN <<>> ELSE Concatenate(arrays, n - 1) \o arrays[n]

\* A labelling that promotes an agent sitting exactly on a cut point.
ExceedsOrTies(a, cut) == RLeq(cut, a)

\* ThisType.aLvlNow > quartile_cuts[n]
Exceeds(a, cut) == RGreater(a, cut)

\* WealthQ = 0; for n in range(3): WealthQ[aLvlNow > quartile_cuts[n]] += 1
RECURSIVE LabelLoop(_, _, _)
LabelLoop(a, cuts, n) ==
    IF n = 0 THEN 0
    ELSE LabelLoop(a, cuts, n - 1) + (IF Exceeds(a, cuts[n]) THEN 1 ELSE 0)

\* A labelling loop that stops one cut point short (range(2)).
WealthQOfTwoCuts(aLvlNow, cuts) ==
    [i \in 1..Len(aLvlNow) |-> LabelLoop(aLvlNow[i], cuts, Len(cuts) - 1)]

WealthQOf(aLvlNow, cuts) ==
    [i \in 1..Len(aLvlNow) |-> LabelLoop(aLvlNow[i], cuts, Len(cuts))]

\* Gather the wealth levels, get the quartile cutoffs, distribute the labels
\* to each consumer type, and start with empty MPC sets.
GatherAndLabel(c) ==
    /\ call[c].pc = "gather"
    /\ LET WealthNow     == Concatenate([j \in Types |-> EstTypeList[j].aLvlNow], TypeCount)
           quartile_cuts == getPercentiles(WealthNow, QuartilePercentiles)
       IN  /\ EstTypeList' =
                 [j \in Types |->
                     [EstTypeList[j] EXCEPT
                         !.WealthQ = WealthQOf(EstTypeList[j].aLvlNow, quartile_cuts),
                         !.byWealthQ = c]]
           /\ call' = [call EXCEPT
                         ![c].pc = "mpc", ![c].j = 1,
                         ![c].WealthNow = WealthNow,
                         ![c].quartile_cuts = quartile_cuts,
                         ![c].MPC_set_list = EmptySets,
                         ![c].foreign = @ \/ \E j \in Types : Foreign(c, EstTypeList[j].bySim)]
    /\ UNCHANGED <<config, MPC_target, ncalls>>

\* A secant that divides by the prize in levels instead of the normalized prize.
SecantMPCLevel(cFunc, mNrm, pLvl, c_base, Llvl, Spl) ==
    LET Lnrm       == RDiv(Llvl, pLvl)
        SplurgeNrm == RDiv(Spl, pLvl)
        mAdj       == RSub(RAdd(mNrm, Lnrm), SplurgeNrm)
        cAdj       == RAdd(cFuncAt(cFunc, mAdj), SplurgeNrm)
    IN  RDiv(RSub(cAdj, c_base), Llvl)

\* The secant MPC of one agent for a prize Llvl (do_secant):
\*   Lnrm = Llvl/pLvlNow; SplurgeNrm = Splurge/pLvlNow
\*   mAdj = mNrmNow + Lnrm - SplurgeNrm; cAdj = cFunc[0](mAdj) + SplurgeNrm
\*   MPC = (cAdj - c_base)/Lnrm
SecantMPC(cFunc, mNrm, pLvl, c_base, Llvl, Spl) ==
    LET Lnrm       == RDiv(Llvl, pLvl)
        SplurgeNrm == RDiv(Spl, pLvl)
        mAdj       == RSub(RAdd(mNrm, Lnrm), SplurgeNrm)
        cAdj       == RAdd(cFuncAt(cFunc, mAdj), SplurgeNrm)
    IN  RDiv(RSub(cAdj, c_base), Lnrm)

\* A point MPC that takes the splurge out of the resources, as the secant does.
PointMPCSplurge(cFunc, mNrm, pLvl, Llvl) ==
    LET Lnrm       == RDiv(Llvl, pLvl)
        SplurgeNrm == RDiv(Splurge, pLvl)
        mAdj       == RSub(RAdd(mNrm, Lnrm), SplurgeNrm)
    IN  cFuncDerivative(cFunc, mAdj)

\* The point MPC after the prize (not do_secant):
\*   mAdj = mNrmNow + Lnrm; MPC = cFunc[0].derivative(mAdj)
PointMPC(cFunc, mNrm, pLvl, Llvl) ==
    LET Lnrm == RDiv(Llvl, pLvl)
        mAdj == RAdd(mNrm, Lnrm)
    IN  cFuncDerivative(cFunc, mAdj)

\* MPC_this_type[i, k]
AgentMPC(ThisType, i, c_base, k) ==
    IF do_secant
    THEN SecantMPC(ThisType.cFunc, ThisType.mNrmNow[i], ThisType.pLvlNow[i],
                   c_base[i], RInt(lottery_size[k + 1]), Splurge)
    ELSE PointMPC(ThisType.cFunc, ThisType.mNrmNow[i], ThisType.pLvlNow[i],
                  RInt(lottery_size[k + 1]))

\* A selection that takes every agent labelled q or higher.
RECURSIVE TheseAtLeast(_, _, _, _, _)
TheseAtLeast(MPC_this_type, WealthQ, q, k, n) ==
    IF n = 0 THEN <<>>
    ELSE TheseAtLeast(MPC_this_type, WealthQ, q, k, n - 1)
         \o (IF WealthQ[n] >= q THEN <<MPC_this_type[n][k]>> ELSE <<>>)

\* MPC_this_type[these, k] with these = (WealthQ == q): the column k of the
\* agents labelled q, in agent order.
RECURSIVE These(_, _, _, _, _)
These(MPC_this_type, WealthQ, q, k, n) ==
    IF n = 0 THEN <<>>
    ELSE These(MPC_this_type, WealthQ, q, k, n - 1)
         \o (IF WealthQ[n] = q THEN <<MPC_this_type[n][k]>> ELSE <<>>)

\* One pass of "for ThisType in EstTypeList": simulate one more period, take
\* the baseline consumption, compute the MPC for each of the four lottery
\* sizes and sort the MPCs into the proper MPC sets.
\* Draws: the outcomes of simulate(1) for the agents of one type.
MPCType(c, Draws) ==
    /\ call[c].pc = "mpc"
    /\ \E d \in Draws :
          LET j        == call[c].j
              ThisType == Simulated(EstTypeList[j], d, c)
              c_base   == ThisType.cNrmNow
              MPC_this_type ==
                  [i \in Agents |-> [k \in Rows |-> AgentMPC(ThisType, i, c_base, k)]]
          IN  /\ EstTypeList' = [EstTypeList EXCEPT ![j] = ThisType]
              /\ call' = [call EXCEPT
                   ![c].pc = IF j = TypeCount THEN "means" ELSE "mpc",
                   ![c].j = j + 1,
                   ![c].MPC_this_type = MPC_this_type,
                   ![c].MPC_set_list =
                       [k \in Rows |-> [q \in Cols |->
                           @[k][q] \o These(MPC_this_type, ThisType.WealthQ, q, k, AgentCount)]],
                   ![c].foreign = @ \/ Foreign(c, EstTypeList[j].bySolve)
                                    \/ Foreign(c, EstTypeList[j].bySim)
                                    \/ Foreign(c, EstTypeList[j].byWealthQ)]
    /\ UNCHANGED <<config, MPC_target, ncalls>>

\* The same pass with the outcomes of simulate(1) drawn from the type's
\* generator.
MPCTypeSeeded(c) == MPCType(c, {Shocks(EstTypeList, call[c].j)})

\* Calculate average within each MPC set.
Means(c) ==
    /\ call[c].pc = "means"
    /\ call' = [call EXCEPT
                  ![c].pc = "distance",
                  ![c].simulated_MPC_means =
                      [k \in Rows |-> [q \in Cols |-> Mean(call[c].MPC_set_list[k][q])]]]
    /\ UNCHANGED <<config, MPC_target, EstTypeList, ncalls>>

\* A difference that never drops the corner.
DiffMatrixKeepCorner(sim, target, drop) ==
    [k \in Rows |-> [q \in Cols |-> RSub(sim[k][q], target[k][q])]]

\* diff = simulated_MPC_means - MPC_target; if drop_corner: diff[0,0] = 0.0
DiffMatrix(sim, target, drop) ==
    [k \in Rows |-> [q \in Cols |->
        IF drop /\ k = 0 /\ q = 0 THEN RInt(0) ELSE RSub(sim[k][q], target[k][q])]]

RECURSIVE CommonUnit(_, _)
CommonUnit(diff, n) ==
    IF n = 0 THEN 1
    ELSE LCM(CommonUnit(diff, n - 1), diff[Cells[n][1]][Cells[n][2]][2])

\* np.sqrt(np.sum(diff**2)), kept exactly: the value is sqrt(sumsq)/unit,
\* and NaN when an entry of diff is NaN.
EuclidNorm(diff) ==
    IF \E k \in Rows, q \in Cols : IsNaN(diff[k][q]) THEN NoDistance
    ELSE LET U == CommonUnit(diff, 16)
             X == [n \in 1..16 |->
                     LET e == diff[Cells[n][1]][Cells[n][2]] IN e[1] * (U \div e[2])]
         IN  [nan |-> FALSE, sumsq |-> BigSum([n \in 1..16 |-> BigOfSquare(X[n])]),
              unit |-> U]

\* distance of lines 245-248, as a function of the two matrices.
DistanceOf(sim, target, drop) == EuclidNorm(DiffMatrix(sim, target, drop))

\* The corner zeroed in place in the target (diff aliasing MPC_target).
TargetCornerZeroed(target, drop) ==
    IF drop THEN [target EXCEPT ![0][0] = RInt(0)] ELSE target

\* MPC_target after the distance is computed: diff is a new array, so
\* zeroing its corner leaves the target as it was.
TargetAfterDiff(target, drop) == target

\* Calculate the Euclidean distance between the simulated MPC averages and
\* the Table 9 targets, print and return it.
Distance(c) ==
    /\ call[c].pc = "distance"
    /\ LET diff == DiffMatrix(call[c].simulated_MPC_means, MPC_target, drop_corner)
       IN  call' = [call EXCEPT
                      ![c].pc = "returned",
                      ![c].diff = diff,
                      ![c].distance = EuclidNorm(diff)]
    /\ MPC_target' = TargetAfterDiff(MPC_target, drop_corner)
    /\ UNCHANGED <<config, EstTypeList, ncalls>>

\* ------------------------------- one evaluation, types in list order
\* The first n commands run on type j.
RECURSIVE RunCommands(_, _, _, _)
RunCommands(types, j, n, c) ==
    IF n = 0 THEN types
    ELSE LET before == RunCommands(types, j, n - 1, c)
         IN  [before EXCEPT ![j] = RunOne(before, j, Commands[n], c)]

\* The batch run without workers: all commands on the first type, then all
\* commands on the second, and so on through the first n types.
RECURSIVE SequentialBatch(_, _, _)
SequentialBatch(types, n, c) ==
    IF n = 0 THEN types
    ELSE RunCommands(SequentialBatch(types, n - 1, c), n, Len(Commands), c)

\* The MPC loop over the first n types: the population and the MPC sets.
RECURSIVE MPCLoop(_, _, _)
MPCLoop(types, n, c) ==
    IF n = 0 THEN [types |-> types, sets |-> EmptySets]
    ELSE LET prev     == MPCLoop(types, n - 1, c)
             ThisType == Simulated(prev.types[n], Shocks(prev.types, n), c)
             MPC_this_type ==
                 [i \in Agents |->
                     [k \in Rows |-> AgentMPC(ThisType, i, ThisType.cNrmNow, k)]]
         IN  [types |-> [prev.types EXCEPT ![n] = ThisType],
              sets  |-> [k \in Rows |-> [q \in Cols |->
                            prev.sets[k][q]
                            \o These(MPC_this_type, ThisType.WealthQ, q, k, AgentCount)]]]

\* Lines 196-253 run on a population whose discount factors are assigned,
\* the batch taken in list order.
Evaluate(types, c) ==
    LET batch     == SequentialBatch(types, Len(types), c)
        WealthNow == Concatenate([j \in 1..Len(types) |-> batch[j].aLvlNow], Len(types))
        cuts      == getPercentiles(WealthNow, QuartilePercentiles)
        labelled  == [j \in 1..Len(types) |->
                         [batch[j] EXCEPT
                             !.WealthQ = WealthQOf(batch[j].aLvlNow, cuts),
                             !.byWealthQ = c]]
        loop      == MPCLoop(labelled, Len(types), c)
        means     == [k \in Rows |-> [q \in Cols |-> Mean(loop.sets[k][q])]]
    IN  [batch |-> batch, WealthNow |-> WealthNow,
         simulated_MPC_means |-> means,
         distance |-> DistanceOf(means, MPC_target, drop_corner)]

\* FagerengObjFunc(center, spread) as the first call on the population of
\* lines 151-155.
FirstCall(center, spread, c) ==
    LET beta_set == approxUniform(TypeCount, RSub(center, spread),
                                  RAdd(center, spread))[2]
    IN  Evaluate([j \in Types |-> WithDiscFac(NewType(j), BetaFor(beta_set, j), c)], c)

\* Comparisons of distances (sqrt is strictly increasing; NaN compares false).
DistIsZero(d) == ~d.nan /\ d.sumsq = <<0, 0>>

DistNonNegative(d) == ~d.nan /\ ~BigLess(d.sumsq, <<0, 0>>)

DistLess(a, b) ==
    /\ ~a.nan /\ ~b.nan
    /\ LET l  == LCM(a.unit, b.unit)
           fa == l \div a.unit
           fb == l \div b.unit
       IN  BigLess(BigTimes(a.sumsq, fa * fa), BigTimes(b.sumsq, fb * fb))

DistEqual(a, b) == ~a.nan /\ ~b.nan /\ ~DistLess(a, b) /\ ~DistLess(b, a)

\* ----------------------------------------------------------- specifications
\* The inputs of a run.  Who: the callers that evaluate the objective;
\* limit: the number of evaluations; Trials: the (center, spread) pairs the
\* optimizer tries; CF: the consumption functions the solver returns;
\* Worlds, Draws: the outcomes <<m, p>> of simulate() and of simulate(1).
NextWith(Who, limit, Trials, CF, Worlds, Draws) ==
    \E c \in Who :
        \/ \E t \in Trials : ncalls < limit /\ Start(c, t[1], t[2])
        \/ AssignDiscFac(c)
        \/ SolveSimulate(c, CF, Worlds)
        \/ GatherAndLabel(c)
        \/ MPCType(c, Draws)
        \/ Means(c)
        \/ Distance(c)

Guess == <<Rat(92, 100), Rat(3, 100)>>

LotterySizes == {<<2, 4, 8, 40>>}

\* Wealth quartiles: one evaluation by the sequential optimizer, every
\* simulated wealth distribution over a small set of outcomes.
MP == {<<1, 1>>, <<4, 2>>}

Init ==
    InitWith(1..MaxTypeCount, 1..MaxAgentCount, {RInt(1)}, {RInt(0)},
             {TRUE}, {FALSE}, LotterySizes, {FALSE})

Next ==
    NextWith({1}, 1, {Guess}, {HalfCFunc, KinkCFunc},
             [Types -> [Agents -> MP]], [Agents -> {<<3, 1>>}])

Spec == Init /\ [][Next]_vars

\* Trial evaluations on the shared population: up to MaxCalls evaluations
\* with different (center, spread), issued one after another
\* (parallelTrials = FALSE, the notebook's optimizer) or by an optimizer that
\* evaluates trial points concurrently (parallelTrials = TRUE).
Trials == {Guess, <<Rat(95, 100), RInt(0)>>}

InitTrials ==
    InitWith(1..MaxTypeCount, {1}, {RInt(1)}, {RInt(0)}, {TRUE}, {FALSE},
             LotterySizes, BOOLEAN)

NextTrials ==
    NextWith(Callers, MaxCalls, Trials, {HalfCFunc},
             [Types -> [Agents -> {<<1, 1>>}]], [Agents -> {<<3, 1>>}])

SpecTrials == InitTrials /\ [][NextTrials]_vars

\* The MPC computation: one evaluation, every consumption function, secant
\* and point MPCs, with and without splurge, over the outcomes of simulate(1).
MP4 == {<<4, 1>>, <<1, 2>>}

\* Agent i of type j leaves simulate() with resources (j-1)*AgentCount + i.
OneWorld == { [j \in Types |-> [i \in Agents |-> <<(j - 1) * AgentCount + i, 1>>]] }

\* The outcomes of simulate(1) for the agents of a type: the two outcomes of
\* MP4 alternate over the agents, starting with either.
AlternatingDraws ==
    { [i \in Agents |-> IF i % 2 = r THEN <<4, 1>> ELSE <<1, 2>>] : r \in 0..1 }

InitMPC ==
    InitWith(1..MaxTypeCount, 1..MaxAgentCount, {RInt(1)}, {RInt(0), RInt(1)},
             BOOLEAN, {FALSE}, LotterySizes, {FALSE})

NextMPC ==
    NextWith({1}, 1, {Guess}, {HalfCFunc, KinkCFunc}, OneWorld,
             AlternatingDraws \cap [Agents -> MP4])

SpecMPC == InitMPC /\ [][NextMPC]_vars

\* The pooled wealth sequence [1,2,3,4,5,6,7,8]: eight agents in 1, 2, 4 or 8
\* types, cFunc(m) = 0.5*m, permanent income 2 and resources w, so that the
\* wealth of an agent is (w - 0.5*w)*2 = w; every rotation of the sequence.
EightWealth == <<1, 2, 3, 4, 5, 6, 7, 8>>

EightWorlds ==
    { [j \in Types |-> [i \in Agents |->
          <<EightWealth[(((j - 1) * AgentCount + i - 1 + r) % Len(EightWealth)) + 1], 2>>]]
      : r \in 0..(Len(EightWealth) - 1) }

InitEight ==
    /\ InitWith(1..Len(EightWealth), 1..Len(EightWealth), {Rat(1, 2), RInt(1)}, {RInt(0)},
                BOOLEAN, BOOLEAN, LotterySizes, {FALSE})
    /\ TypeCount * AgentCount = Len(EightWealth)

NextEight ==
    NextWith({1}, 1, {Guess}, {HalfCFunc}, EightWorlds, [Agents -> {<<3, 1>>}])

SpecEight == InitEight /\ [][NextEight]_vars

\* The distance as a function of SimulatedMatrix: the call is about to
\* compute the distance (lines 244-253) from a matrix that is the target
\* moved by d0 in the corner and by d1 in one other cell, with the columns
\* of the empty buckets NaN.
Perturbed(target, d0, cell, d1, nanCols) ==
    [k \in Rows |-> [q \in Cols |->
        IF q \in nanCols THEN NaN
        ELSE IF k = 0 /\ q = 0 THEN RAdd(target[k][q], d0)
        ELSE IF <<k, q>> = cell THEN RAdd(target[k][q], d1)
        ELSE target[k][q]]]

InitDistance ==
    /\ TypeCount = 1
    /\ AgentCount = 1
    /\ AdjFactor \in {Rat(1, 2), RInt(1)}
    /\ Splurge = RInt(0)
    /\ do_secant = TRUE
    /\ drop_corner \in BOOLEAN
    /\ lottery_size \in LotterySizes
    /\ parallelTrials = FALSE
    /\ MPC_target = TargetMatrix(AdjFactor)
    /\ EstTypeList = [j \in 1..TypeCount |-> NewType(j)]
    /\ ncalls = 1
    /\ \E d0 \in {RInt(0), Rat(1, 8), RNeg(MPC_target[0][0])},
          n \in 2..16, d1 \in {RInt(0), Rat(-1, 8)},
          nanCols \in {{}, {3}, {2, 3}} :
          call = [c \in Callers |->
                    IF c = 1
                    THEN [IdleCall EXCEPT
                            !.pc = "distance", !.center = Guess[1], !.spread = Guess[2],
                            !.simulated_MPC_means =
                                Perturbed(MPC_target, d0, Cells[n], d1, nanCols)]
                    ELSE IdleCall]

NextDistance == Distance(1)

SpecDistance == InitDistance /\ [][NextDistance]_vars

\* The evaluations of the sequential optimizer on a deterministic solver and
\* simulator: up to MaxCalls calls, the batch of every call fanned out to one
\* worker per type, the workers' commands interleaved in every order.
InitBatch ==
    InitWith(1..MaxTypeCount, 1..MaxAgentCount, {RInt(1)}, {RInt(0)},
             BOOLEAN, {FALSE}, LotterySizes, {FALSE})

NextBatch ==
    \/ \E t \in Trials : ncalls < MaxCalls /\ Start(1, t[1], t[2])
    \/ AssignDiscFac(1)
    \/ Dispatch(1)
    \/ \E j \in Types : RunCommand(1, j)
    \/ Join(1)
    \/ GatherAndLabel(1)
    \/ MPCTypeSeeded(1)
    \/ Means(1)
    \/ Distance(1)

SpecBatch == InitBatch /\ [][NextBatch]_vars

\* ------------------------------------------------------------------ claims
\* The caller of the sequential specifications: the first one.
Me == CHOOSE c \in Callers : \A o \in Callers : c <= o

Labelled(c) == call[c].pc \in {"mpc", "means", "distance", "returned"}

\* The wealth of agent i of type j in the pooled sequence of a call.
PooledWealth(c, j, i) == call[c].WealthNow[(j - 1) * AgentCount + i]

\* The labels a call distributed, read before a later call relabels them.
LabelOf(j, i) == EstTypeList[j].WealthQ[i]

\* C1: once a call has labelled the population, every agent of every type
\* carries a label in {0,1,2,3} equal to the number of the three cut points
\* its pooled wealth strictly exceeds; an agent on a cut point is not counted
\* as exceeding it.
C1_LabelCountsStrictExcess ==
    Labelled(Me) =>
        \A j \in Types, i \in Agents :
            /\ LabelOf(j, i) \in 0..3
            /\ LabelOf(j, i) =
                   Cardinality({n \in 1..3 :
                       RGreater(PooledWealth(Me, j, i), call[Me].quartile_cuts[n])})

\* C1 witness: a labelled population with an agent exactly on a cut point
\* (left in the lower quartile) and an agent in the top quartile.
C1_Witness ==
    /\ call[Me].pc = "mpc"
    /\ \E j \in Types, i \in Agents, n \in 1..3 :
          /\ PooledWealth(Me, j, i) = call[Me].quartile_cuts[n]
          /\ LabelOf(j, i) < n
    /\ \E j \in Types, i \in Agents : LabelOf(j, i) = 3

\* C2: whenever the means are computed, none of the 16 buckets of
\* MPC_set_list is empty and every entry of SimulatedMatrix is a finite
\* average, whatever the pooled wealth distribution of four or more agents.
C2_NoEmptyBucket ==
    TypeCount * AgentCount >= 4 =>
        /\ call[Me].pc = "means" =>
               \A k \in Rows, q \in Cols : call[Me].MPC_set_list[k][q] # <<>>
        /\ call[Me].pc \in {"distance", "returned"} =>
               \A k \in Rows, q \in Cols : ~IsNaN(call[Me].simulated_MPC_means[k][q])

\* C3: a call reads discount factors, solutions, simulation arrays or labels
\* written by another call only when evaluations are interleaved; when the
\* calls run strictly one after another, no call ever does.
C3_ForeignReadOnlyWhenInterleaved ==
    \A c \in Callers : call[c].foreign => parallelTrials

\* C3 witness: two interleaved calls with different (center, spread), one of
\* which has solved, simulated or scored from the other's writes.
C3_Witness ==
    /\ parallelTrials
    /\ \E c, o \in Callers :
          /\ c # o
          /\ call[c].foreign
          /\ call[o].pc # "idle"
          /\ <<call[c].center, call[c].spread>> # <<call[o].center, call[o].spread>>

\* C9: in a sequential run, from the assignment of the discount factors to
\* the return of the call, type j holds the j-th value of the discretized
\* uniform distribution over [center-spread, center+spread]; with spread = 0
\* every type holds center.
C9_DiscFacPerType ==
    \A c \in Callers :
        (~parallelTrials /\ call[c].pc \in {"solve", "gather", "mpc", "means", "distance"}) =>
            \A j \in Types :
                /\ EstTypeList[j].DiscFac =
                       approxUniform(TypeCount, RSub(call[c].center, call[c].spread),
                                     RAdd(call[c].center, call[c].spread))[2][j]
                /\ REq(call[c].spread, RInt(0)) => EstTypeList[j].DiscFac = call[c].center

\* C9 witness: a call with spread = 0 has assigned the discount factors of a
\* population of several types, after an earlier call with a positive spread.
C9_Witness ==
    \E c \in Callers :
        /\ ~parallelTrials
        /\ call[c].pc = "solve"
        /\ call[c].spread = RInt(0)
        /\ TypeCount > 1
        /\ ncalls = 2
        /\ \A j \in Types : EstTypeList[j].DiscFac = call[c].center

\* The cells that enter the distance: all 16, or all but (0,0) under drop_corner.
Scored(k, q) == ~(drop_corner /\ k = 0 /\ q = 0)

Sim(c) == call[c].simulated_MPC_means

\* C4 (amended): the returned distance is never negative: it is NaN exactly
\* when a scored entry of SimulatedMatrix is NaN, and otherwise a
\* non-negative number; and it equals 0 iff SimulatedMatrix equals
\* TargetMatrix in every scored entry (all 16 entries, or all but (0,0) when
\* drop_corner is true).
C4_ZeroIffScoredEntriesEqual ==
    call[Me].pc = "returned" =>
        LET d == call[Me].distance IN
        /\ d.nan <=> \E k \in Rows, q \in Cols : Scored(k, q) /\ IsNaN(Sim(Me)[k][q])
        /\ ~d.nan => DistNonNegative(d)
        /\ DistIsZero(d) <=>
               \A k \in Rows, q \in Cols :
                   Scored(k, q) => REq(Sim(Me)[k][q], MPC_target[k][q])

\* C4 witness: drop_corner is on, the distance is 0 and SimulatedMatrix
\* differs from the target in the corner.
C4_Witness ==
    /\ call[Me].pc = "returned"
    /\ drop_corner
    /\ DistIsZero(call[Me].distance)
    /\ Sim(Me)[0][0] # MPC_target[0][0]

\* C4 as stated, for finite matrices: the distance is non-negative and is 0
\* iff SimulatedMatrix equals TargetMatrix, or TargetMatrix with its corner
\* zeroed when drop_corner is true.
C4_ZeroIffEqualsTarget ==
    (call[Me].pc = "returned"
       /\ \A k \in Rows, q \in Cols : ~IsNaN(Sim(Me)[k][q])) =>
        /\ DistNonNegative(call[Me].distance)
        /\ DistIsZero(call[Me].distance) <=>
               \/ Sim(Me) = MPC_target
               \/ drop_corner /\ Sim(Me) = [MPC_target EXCEPT ![0][0] = RInt(0)]

\* C5: for the matrices of a returned call, the distance with the corner
\* dropped is strictly smaller than the distance with the corner kept when
\* the (0,0) entry of SimulatedMatrix - TargetMatrix is nonzero, and the two
\* are equal when that entry is zero.
C5_DropCornerLowersDistance ==
    call[Me].pc = "returned" =>
        LET dropped == DistanceOf(Sim(Me), MPC_target, TRUE)
            kept    == DistanceOf(Sim(Me), MPC_target, FALSE)
        IN  /\ call[Me].distance = (IF drop_corner THEN dropped ELSE kept)
            /\ IF REq(Sim(Me)[0][0], MPC_target[0][0])
               THEN DistEqual(dropped, kept)
               ELSE DistLess(dropped, kept)

\* C5 restricted to matrices without NaN (no empty bucket).
C5_FiniteMatrices ==
    (call[Me].pc = "returned"
       /\ \A k \in Rows, q \in Cols : ~IsNaN(Sim(Me)[k][q])) =>
        C5_DropCornerLowersDistance

\* The type whose MPCs a call has just computed.
LastType(c) == EstTypeList[call[c].j - 1]

\* C6: with do_secant and Splurge = 0, after the MPCs of a type are
\* computed, the baseline consumption of every agent is cFunc(m) and its MPC
\* for every lottery size is (cFunc(m + L) - cFunc(m))/L, with m the
\* agent's normalized market resources and L the prize over its permanent
\* income.
C6_SecantWithoutSplurge ==
    (do_secant /\ Splurge = RInt(0) /\ call[Me].pc \in {"mpc", "means"} /\ call[Me].j > 1) =>
        \A i \in Agents, k \in Rows :
            LET T == LastType(Me)
                m == T.mNrmNow[i]
                L == RDiv(RInt(lottery_size[k + 1]), T.pLvlNow[i])
            IN  /\ T.cNrmNow[i] = cFuncAt(T.cFunc, m)
                /\ call[Me].MPC_this_type[i][k] =
                       RDiv(RSub(cFuncAt(T.cFunc, RAdd(m, L)), cFuncAt(T.cFunc, m)), L)

\* C6 witness: a constrained agent whose prize carries it across the kink of
\* its consumption function, with permanent income other than 1: its secant
\* MPC lies strictly between the two slopes.
C6_Witness ==
    /\ do_secant /\ Splurge = RInt(0)
    /\ call[Me].pc = "means"
    /\ \E i \in Agents, k \in Rows :
          /\ LastType(Me).cFunc = KinkCFunc
          /\ LastType(Me).pLvlNow[i] = RInt(2)
          /\ RLess(Rat(1, 2), call[Me].MPC_this_type[i][k])
          /\ RLess(call[Me].MPC_this_type[i][k], RInt(1))

Half == Rat(1, 2)

\* C7: with TypeCount = 1, Splurge = 0, do_secant and cFunc(m) = 0.5*m, a
\* returned call has computed a per-agent MPC of 0.5 for every lottery size,
\* every entry of SimulatedMatrix is 0.5, and the distance is the Euclidean
\* norm of (0.5 - MPC_target).
C7_UniformHalf ==
    (/\ TypeCount = 1 /\ Splurge = RInt(0) /\ do_secant /\ ~drop_corner
     /\ call[Me].pc = "returned"
     /\ EstTypeList[1].cFunc = HalfCFunc) =>
        /\ \A i \in Agents, k \in Rows : call[Me].MPC_this_type[i][k] = Half
        /\ \A k \in Rows, q \in Cols : Sim(Me)[k][q] = Half
        /\ call[Me].distance =
               EuclidNorm([k \in Rows |-> [q \in Cols |-> RSub(Half, MPC_target[k][q])]])

\* C7 restricted to calls in which no bucket is empty.
C7_NoEmptyBucket ==
    (\A k \in Rows, q \in Cols : call[Me].MPC_set_list[k][q] # <<>>) => C7_UniformHalf

\* C8: when the pooled wealth sequence is a rearrangement of
\* [1,2,3,4,5,6,7,8], the labelling puts exactly two of the eight agents in
\* each of the labels 0, 1, 2, 3.
C8_TwoPerQuartile ==
    (Labelled(Me) /\ Sorted(call[Me].WealthNow) = [n \in 1..8 |-> RInt(EightWealth[n])]) =>
        \A q \in Cols :
            Cardinality({<<j, i>> \in Types \X Agents : LabelOf(j, i) = q}) * 4
                = Len(EightWealth)

\* C8 witness: the pooled sequence is [1,...,8] in this order, the cut
\* points are 2, 4, 6, and the agents holding 2 and 3 are labelled 0 and 1.
C8_Witness ==
    /\ call[Me].pc = "mpc"
    /\ call[Me].WealthNow = [n \in 1..8 |-> RInt(EightWealth[n])]
    /\ call[Me].quartile_cuts = <<RInt(2), RInt(4), RInt(6)>>
    /\ TypeCount = 2
    /\ LabelOf(1, 2) = 0 /\ LabelOf(1, 3) = 1

\* C10: the target is the base Table 9 matrix scaled elementwise by
\* AdjFactor and no call changes it: in every state MPC_target is
\* AdjFactor*MPC_target_base, and the target for AdjFactor = 0.5 is 0.5 times
\* the target for AdjFactor = 1.0 in each of the 16 entries.
C10_TargetScaledAndUnchanged ==
    /\ \A k \in Rows, q \in Cols :
          /\ MPC_target[k][q] = RMul(AdjFactor, Rat(MPC_target_base[k][q], 1000))
          /\ TargetMatrix(Rat(1, 2))[k][q] = RMul(Rat(1, 2), TargetMatrix(RInt(1))[k][q])
    /\ MPC_target = TargetMatrix(AdjFactor)

\* C10 witness: a call returned with drop_corner on and AdjFactor = 0.5; the
\* corner of diff is zero and the corner of the target is still 0.5235.
C10_Witness ==
    /\ call[Me].pc = "returned"
    /\ drop_corner
    /\ AdjFactor = Rat(1, 2)
    /\ call[Me].diff[0][0] = RInt(0)
    /\ MPC_target[0][0] = Rat(1047, 2000)

\* C11: the batch step has no cross-type dependency.  For every interleaving
\* of the workers' command sequences, when multiThreadCommands has returned
\* every type is in the state it has when the types dispatched are processed
\* one after another in list order; and so are the pooled wealth, the
\* simulated matrix and the distance the call goes on to compute.
C11_BatchAsInListOrder ==
    /\ call[Me].pc = "gather" =>
           EstTypeList = SequentialBatch(call[Me].dispatched, TypeCount, Me)
    /\ call[Me].pc = "returned" =>
           LET seq == Evaluate(call[Me].dispatched, Me)
           IN  /\ call[Me].WealthNow = seq.WealthNow
               /\ call[Me].simulated_MPC_means = seq.simulated_MPC_means
               /\ call[Me].distance = seq.distance

\* A call has returned a number after its two workers ran their commands in
\* an order other than list order.
C11_Witness ==
    /\ call[Me].pc = "returned"
    /\ call[Me].interleaved
    /\ TypeCount = 2
    /\ AgentCount = 2
    /\ ~call[Me].distance.nan

Bucketed(c) == call[c].pc \in {"means", "distance", "returned"}

\* The agents of the population, as <<type, agent>>.
Population == Types \X Agents

\* The MPC of agent i of type j for lottery k, from what simulate(1) left in
\* the type.
MPCOf(j, i, k) == AgentMPC(EstTypeList[j], i, EstTypeList[j].cNrmNow, k)

\* How often v occurs in the sequence s.
Occurrences(s, v) == Cardinality({n \in 1..Len(s) : s[n] = v})

\* C12: when the MPC loop of a call is over, for each lottery index k every
\* agent of every type has put exactly one MPC value, its own for that k,
\* into exactly one of the four buckets (k, q), the one of its own label:
\* bucket (k, q) holds one value per agent labelled q and the values it
\* holds are those agents' MPCs, the four bucket sizes of a k sum to the
\* number of agents, and the size of bucket (k, q) is the same for all k.
C12_BucketsPartitionAgents ==
    Bucketed(Me) =>
        LET sets == call[Me].MPC_set_list
        IN  /\ \A k \in Rows, q \in Cols :
                   /\ Len(sets[k][q]) =
                          Cardinality({a \in Population : LabelOf(a[1], a[2]) = q})
                   /\ \A n \in 1..Len(sets[k][q]) :
                          Occurrences(sets[k][q], sets[k][q][n]) =
                              Cardinality({a \in Population :
                                              /\ LabelOf(a[1], a[2]) = q
                                              /\ MPCOf(a[1], a[2], k) = sets[k][q][n]})
                   /\ Len(sets[k][q]) = Len(sets[0][q])
            /\ \A k \in Rows :
                   Len(sets[k][0]) + Len(sets[k][1]) + Len(sets[k][2]) + Len(sets[k][3])
                       = TypeCount * AgentCount

\* Four agents of two types in three different buckets, with MPCs that
\* differ between lottery sizes.
C12_Witness ==
    /\ Bucketed(Me)
    /\ TypeCount = 2
    /\ AgentCount = 2
    /\ Cardinality({q \in Cols : call[Me].MPC_set_list[0][q] # <<>>}) >= 3
    /\ \E a \in Population : MPCOf(a[1], a[2], 0) # MPCOf(a[1], a[2], 3)

\* The slope of the consumption function f at m: the slope of the piece of
\* f that m lies on (the last piece beyond the last knot).
SlopeAt(f, m) ==
    LET n == Len(f.x)
        i == IF RLess(m, RInt(f.x[1])) THEN 1
             ELSE CHOOSE s \in 1..(n - 1) :
                      /\ RLeq(RInt(f.x[s]), m)
                      /\ s = n - 1 \/ RLess(m, RInt(f.x[s + 1]))
    IN  RDiv(RSub(f.y[i + 1], f.y[i]), RInt(f.x[i + 1] - f.x[i]))

\* C13: with do_secant false, the MPC of every agent of the type just
\* processed, for every lottery size, is the derivative of the type's
\* consumption function at the agent's baseline normalized resources plus
\* the prize divided by its permanent income; Splurge does not enter, so the
\* value is the same whatever Splurge is.
C13_PointMPCIgnoresSplurge ==
    (call[Me].pc \in {"mpc", "means"} /\ call[Me].j > 1 /\ ~do_secant) =>
        \A i \in Agents, k \in Rows :
            call[Me].MPC_this_type[i][k] =
                SlopeAt(LastType(Me).cFunc,
                        RAdd(LastType(Me).mNrmNow[i],
                             RDiv(RInt(lottery_size[k + 1]), LastType(Me).pLvlNow[i])))

\* Point MPCs were computed with a positive Splurge for a constrained
\* consumer whose slope at the resources less the splurge would differ.
C13_Witness ==
    /\ call[Me].pc \in {"mpc", "means"}
    /\ call[Me].j > 1
    /\ ~do_secant
    /\ RLess(RInt(0), Splurge)
    /\ \E i \in Agents, k \in Rows :
           call[Me].MPC_this_type[i][k] #
               SlopeAt(LastType(Me).cFunc,
                       RSub(RAdd(LastType(Me).mNrmNow[i],
                                 RDiv(RInt(lottery_size[k + 1]), LastType(Me).pLvlNow[i])),
                            RDiv(Splurge, LastType(Me).pLvlNow[i])))

\* C14: sequential calls are reproducible.  Whatever calls were made before
\* on the shared population, a call that has returned has computed the
\* simulated matrix and the distance that FagerengObjFunc computes for its
\* (center, spread) as the first call on the population as constructed
\* (a NaN entry counting as the same as a NaN entry).
C14_SequentialCallsReproducible ==
    call[Me].pc = "returned" =>
        LET first == FirstCall(call[Me].center, call[Me].spread, Me)
        IN  /\ call[Me].simulated_MPC_means = first.simulated_MPC_means
            /\ call[Me].distance = first.distance

\* A second call has returned a number; it was dispatched on a population
\* that the call before it had left solved, simulated and labelled, with
\* another discount factor and another consumption function for a type.
C14_Witness ==
    /\ call[Me].pc = "returned"
    /\ ncalls = 2
    /\ ~call[Me].distance.nan
    /\ \E j \in Types :
           /\ call[Me].dispatched[j].bySolve = Me
           /\ call[Me].dispatched[j].byWealthQ = Me
           /\ call[Me].dispatched[j].RNG > 0
           /\ call[Me].dispatched[j].cFunc # EstTypeList[j].cFunc

====
